---- MODULE Spec2Model ----
(***************************************************************************)
(* Model of the STAC asset-search extension (stac_fastapi_asset_search):   *)
(* the GET query-string request model, the POST body request model with    *)
(* its validators and derived accessors, and the two /asset/search         *)
(* endpoints that hand a constructed request to the backend client.        *)
(*                                                                         *)
(* Text is modelled as a sequence of lexemes (TLA+ strings).  The lexemes  *)
(* "," and "/" are the separators the code splits on, ".." is the open     *)
(* range marker, "1" and "2" are digits and every other lexeme is opaque.  *)
(* An optional value is a sequence of length at most one: <<>> is Python's *)
(* None and <<v>> is the value v.                                          *)
(***************************************************************************)
EXTENDS Integers, Sequences, FiniteSets, TLC

VARIABLES method, request, pc, filter, calls, response

vars == <<method, request, pc, filter, calls, response>>

\* ------------------------------------------------------------------ bounds

\* Longest datetime text, in lexemes.
MaxDatetimeLen == 5
\* Longest ids text of a GET query, in lexemes.
MaxTextLen == 3
\* How far beyond the WGS84 limits the sampled coordinates reach.
CoordMargin == 1
\* Largest sampled elevation.
MaxElev == 1

\* ---------------------------------------------------------- optional values

None == <<>>
Some(v) == <<v>>
IsNone(o) == Len(o) = 0
Get(o) == o[1]

\* The fields of the GET request hold a Python str or a Python list of str:
\* the two are told apart, as Python tells "a" from ["a"].
Str(t) == [str |-> t]
List(l) == [list |-> l]

\* ------------------------------------------------------------ text helpers

\* The texts of at most n lexemes over the alphabet A.
Texts(A, n) == UNION {[1..k -> A] : k \in 0..n}

\* Python truthiness of a str, list or tuple: empty is false.
Truthy(s) == Len(s) > 0

Contains(s, sep) == \E i \in 1..Len(s) : s[i] = sep

RECURSIVE SplitFrom(_, _, _, _)
SplitFrom(s, sep, i, cur) ==
    IF i > Len(s) THEN <<cur>>
    ELSE IF s[i] = sep THEN <<cur>> \o SplitFrom(s, sep, i + 1, <<>>)
    ELSE SplitFrom(s, sep, i + 1, Append(cur, s[i]))

\* str.split(sep): the components between separators, "" included.
Split(s, sep) == SplitFrom(s, sep, 1, <<>>)

RECURSIVE Join(_, _)
\* sep.join(parts)
Join(parts, sep) ==
    IF Len(parts) = 0 THEN <<>>
    ELSE IF Len(parts) = 1 THEN parts[1]
    ELSE parts[1] \o <<sep>> \o Join(Tail(parts), sep)

\* ------------------------------------------------- pydantic.datetime_parse

IsDigit(l) == l \in {"1", "2"}

DigitVal(l) == IF l = "1" THEN 1 ELSE 2

\* The component reads as a number: parse_datetime takes it as unix seconds.
IsTimestamp(c) == Len(c) > 0 /\ \A i \in 1..Len(c) : IsDigit(c[i])

RECURSIVE NumVal(_)
NumVal(c) == IF Len(c) = 0 THEN 0
             ELSE 10 * NumVal(SubSeq(c, 1, Len(c) - 1)) + DigitVal(c[Len(c)])

NoDate == [kind |-> "None", t |-> 0]
Date(n) == [kind |-> "datetime", t |-> n]
DateTimeError == [kind |-> "DateTimeError", t |-> 0]

\* parse_datetime(value): the timestamp, or the raised DateTimeError.
parse_datetime(c) == IF IsTimestamp(c) THEN Date(NumVal(c)) ELSE DateTimeError

\* --------------------------------------------------- stac_fastapi str2list

\* str2list(x): None for None and for "", else x.split(",").
str2list(x) ==
    IF ~IsNone(x) /\ Truthy(Get(x).str) THEN Some(List(Split(Get(x).str, ","))) ELSE None

\* ------------------------------------------------- AssetSearchGetRequest

DefaultLimit == 10

\* attrs construction of the GET request from the query parameters q, each
\* None or a str (limit: None or an int).
AssetSearchGetRequest(q) ==
    [ids        |-> str2list(q.ids),
     items      |-> q.items,
     bbox       |-> str2list(q.bbox),
     intersects |-> str2list(q.intersects),
     datetime   |-> q.datetime,
     role       |-> q.role,
     limit      |-> IF IsNone(q.limit) THEN Some(DefaultLimit) ELSE q.limit]

\* ------------------------------------------------ AssetSearchPostRequest

GeometryTypes == {"Point", "MultiPoint", "LineString", "MultiLineString",
                  "Polygon", "MultiPolygon"}

\* The type validation of `intersects`: one of the six geometry models.
IsGeometry(g) == g.type \in GeometryTypes

LimitMax == 10000

\* conint(gt=0, le=10000)
LimitError(n) ==
    IF ~(n > 0) THEN "ensure this value is greater than 0"
    ELSE IF ~(n <= LimitMax) THEN "ensure this value is less than or equal to 10000"
    ELSE ""

LonMin == -180
LatMin == -90
LonMax == 180
LatMax == 90

\* validate_bbox without the latitude order check.
validate_bbox_no_lat_order(v) ==
    LET xmin == v[1]
        ymin == v[2]
        xmax == IF Len(v) = 4 THEN v[3] ELSE v[4]
        ymax == IF Len(v) = 4 THEN v[4] ELSE v[5]
    IN  IF Len(v) # 4 /\ v[6] < v[3]
          THEN "Maximum elevation must greater than minimum elevation"
        ELSE IF xmax < xmin
          THEN "Maximum longitude must be greater than minimum longitude"
        ELSE IF xmin < LonMin \/ ymin < LatMin \/ xmax > LonMax \/ ymax > LatMax
          THEN "Bounding box must be within (-180, -90, 180, 90)"
        ELSE ""

\* validate_bbox(v) for a tuple v of 4 or 6 numbers: the message of the
\* ValueError it raises, or "" when it returns v.
validate_bbox(v) ==
    LET xmin == v[1]
        ymin == v[2]
        xmax == IF Len(v) = 4 THEN v[3] ELSE v[4]
        ymax == IF Len(v) = 4 THEN v[4] ELSE v[5]
    IN  IF Len(v) # 4 /\ v[6] < v[3]
          THEN "Maximum elevation must greater than minimum elevation"
        ELSE IF xmax < xmin
          THEN "Maximum longitude must be greater than minimum longitude"
        ELSE IF ymax < ymin
          THEN "Maximum longitude must be greater than minimum longitude"
        ELSE IF xmin < LonMin \/ ymin < LatMin \/ xmax > LonMax \/ ymax > LatMax
          THEN "Bounding box must be within (-180, -90, 180, 90)"
        ELSE ""

\* The `bbox` field: type validation (a tuple of 4 or of 6 numbers), then
\* validate_bbox.  "" when the field validates.
BBoxError(body) ==
    IF IsNone(body.bbox) THEN ""
    ELSE IF Len(Get(body.bbox)) \notin {4, 6} THEN "wrong tuple length"
    ELSE validate_bbox(Get(body.bbox))

\* validate_spatial(v, values) for a geometry v: what it raises, or "".
\* `values` holds the fields validated so far; a field that failed is missing.
validate_spatial(v, values) ==
    IF "bbox" \notin DOMAIN values THEN "KeyError"
    ELSE IF ~IsNone(values["bbox"]) /\ Truthy(Get(values["bbox"])) THEN "ValueError"
    ELSE ""

\* validate_datetime that also refuses a range whose start equals its end.
validate_datetime_strict(v) ==
    LET values == IF Contains(v, "/") THEN Split(v, "/") ELSE <<<<"..">>, v>>
        bad == {i \in 1..Len(values) :
                   values[i] # <<"..">> /\ parse_datetime(values[i]) = DateTimeError}
    IN  IF bad # {} THEN "invalid datetime format"
        ELSE IF (\A i \in 1..Len(values) : values[i] # <<"..">>)
                /\ parse_datetime(values[1]).t >= parse_datetime(values[2]).t
          THEN "Invalid datetime range, must match format (begin_date, end_date)"
        ELSE ""

\* validate_datetime(v): the message of the error it raises, or "".
validate_datetime(v) ==
    LET values == IF Contains(v, "/") THEN Split(v, "/") ELSE <<<<"..">>, v>>
        bad == {i \in 1..Len(values) :
                   values[i] # <<"..">> /\ parse_datetime(values[i]) = DateTimeError}
    IN  IF bad # {} THEN "invalid datetime format"
        ELSE IF (\A i \in 1..Len(values) : values[i] # <<"..">>)
                /\ parse_datetime(values[1]).t > parse_datetime(values[2]).t
          THEN "Invalid datetime range, must match format (begin_date, end_date)"
        ELSE ""

DatetimeError(body) ==
    IF IsNone(body.datetime) THEN "" ELSE validate_datetime(Get(body.datetime))

\* The fields pydantic has put in `values` when `intersects` is validated.
ValuesBeforeIntersects(body) ==
    [f \in {"ids", "items", "collection"} \cup
           (IF BBoxError(body) = "" THEN {"bbox"} ELSE {}) |-> body[f]]

\* The `intersects` field: type validation, then validate_spatial.
IntersectsError(body) ==
    IF IsNone(body.intersects) THEN ""
    ELSE IF ~IsGeometry(Get(body.intersects)) THEN "no match for any geometry"
    ELSE LET r == validate_spatial(Get(body.intersects), ValuesBeforeIntersects(body))
         IN  IF r = "ValueError"
               THEN "intersects and bbox parameters are mutually exclusive"
             ELSE r

LimitFieldError(body) ==
    IF body.limit.given = "value" THEN LimitError(body.limit.n) ELSE ""

LimitValue(body) ==
    IF body.limit.given = "absent" THEN Some(DefaultLimit)
    ELSE IF body.limit.given = "null" THEN None
    ELSE Some(body.limit.n)

\* The errors pydantic collects, one per failed field.
PostErrors(body) ==
    {e \in {[loc |-> "bbox", msg |-> BBoxError(body)],
            [loc |-> "intersects", msg |-> IntersectsError(body)],
            [loc |-> "datetime", msg |-> DatetimeError(body)],
            [loc |-> "limit", msg |-> LimitFieldError(body)]} :
        e.msg \notin {"", "KeyError"}}

\* Construction of the POST request from the JSON body: the model, the
\* ValidationError with its errors, or the exception that escapes validation.
AssetSearchPostRequest(body) ==
    IF IntersectsError(body) = "KeyError"
      THEN [status |-> "raised", exc |-> "KeyError", errors |-> {}, model |-> None]
    ELSE IF PostErrors(body) # {}
      THEN [status |-> "raised", exc |-> "ValidationError",
            errors |-> PostErrors(body), model |-> None]
    ELSE [status |-> "ok", exc |-> "", errors |-> {},
          model |-> Some([ids        |-> body.ids,
                          items      |-> body.items,
                          collection |-> body.collection,
                          bbox       |-> body.bbox,
                          intersects |-> body.intersects,
                          datetime   |-> body.datetime,
                          role       |-> body.role,
                          limit      |-> LimitValue(body)])]

\* start_date of a constructed POST request m.
start_date(m) ==
    IF IsNone(m.datetime) \/ ~Truthy(Get(m.datetime)) THEN NoDate
    ELSE LET values == Split(Get(m.datetime), "/")
         IN  IF Len(values) = 1 THEN NoDate
             ELSE IF values[1] = <<"..">> THEN NoDate
             ELSE parse_datetime(values[1])

\* end_date that, like start_date, gives None for a sole component.
end_date_sole_none(m) ==
    IF IsNone(m.datetime) \/ ~Truthy(Get(m.datetime)) THEN NoDate
    ELSE LET values == Split(Get(m.datetime), "/")
         IN  IF Len(values) = 1 THEN NoDate
             ELSE IF values[2] = <<"..">> THEN NoDate
             ELSE parse_datetime(values[2])

\* end_date of a constructed POST request m.
end_date(m) ==
    IF IsNone(m.datetime) \/ ~Truthy(Get(m.datetime)) THEN NoDate
    ELSE LET values == Split(Get(m.datetime), "/")
         IN  IF Len(values) = 1 THEN parse_datetime(values[1])
             ELSE IF values[2] = <<"..">> THEN NoDate
             ELSE parse_datetime(values[2])

Polygon(ring) == [type |-> "Polygon", coordinates |-> <<ring>>]

\* spatial_filter whose ring starts at the south-west corner.
spatial_filter_from_sw(m) ==
    IF ~IsNone(m.bbox) /\ Truthy(Get(m.bbox))
      THEN LET bbox == Get(m.bbox)
           IN  Some(Polygon(<< <<bbox[1], bbox[2]>>,
                               <<bbox[3], bbox[2]>>,
                               <<bbox[3], bbox[4]>>,
                               <<bbox[1], bbox[4]>>,
                               <<bbox[1], bbox[2]>> >>))
    ELSE IF ~IsNone(m.intersects) THEN m.intersects
    ELSE None

\* spatial_filter of a constructed POST request m.
spatial_filter(m) ==
    IF ~IsNone(m.bbox) /\ Truthy(Get(m.bbox))
      THEN LET bbox == Get(m.bbox)
           IN  Some(Polygon(<< <<bbox[1], bbox[4]>>,
                               <<bbox[3], bbox[4]>>,
                               <<bbox[3], bbox[2]>>,
                               <<bbox[1], bbox[2]>>,
                               <<bbox[1], bbox[4]>> >>))
    ELSE IF ~IsNone(m.intersects) THEN m.intersects
    ELSE None

\* ------------------------------------------------------------- requests

\* Sampled coordinates: the WGS84 limits, a value beyond each of them, and 0.
Lons == {LonMin - CoordMargin, LonMin, 0, LonMax, LonMax + CoordMargin}
Lats == {LatMin - CoordMargin, LatMin, 0, LatMax, LatMax + CoordMargin}
Elevs == 0..MaxElev

BBoxes4 == {<<xmin, ymin, xmax, ymax>> :
               xmin \in Lons, ymin \in Lats, xmax \in Lons, ymax \in Lats}
BBoxes6 == {<<b[1], b[2], z[1], b[3], b[4], z[2]>> : b \in BBoxes4, z \in Elevs \X Elevs}
BBoxesOtherLen == {<<>>, <<0, 0, 0>>, <<0, 0, 0, 0, 0>>}

PointGeom == [type |-> "Point", coordinates |-> <<0, 0>>]
BogusGeom == [type |-> "Bogus", coordinates |-> <<0, 0>>]

DatetimeTexts == Texts({"/", "..", "1", "2", "x"}, MaxDatetimeLen)

LimitSamples == {-1, 0, 1, DefaultLimit, LimitMax - 1, LimitMax, LimitMax + 1}
Limits == {[given |-> "absent", n |-> 0], [given |-> "null", n |-> 0]}
              \cup {[given |-> "value", n |-> n] : n \in LimitSamples}

Names == {<<"a">>, <<"b">>, <<"a", "b">>}
NameLists == {None} \cup {Some(l) : l \in UNION {[1..k -> Names] : k \in 1..2}}

\* The JSON body with every field left out.
EmptyBody ==
    [ids |-> None, items |-> None, collection |-> None, bbox |-> None,
     intersects |-> None, datetime |-> None, role |-> None,
     limit |-> [given |-> "absent", n |-> 0]]

SpatialBodies ==
    {[EmptyBody EXCEPT !.bbox = b, !.intersects = g] :
        b \in {None} \cup {Some(v) : v \in BBoxes4 \cup BBoxes6 \cup BBoxesOtherLen},
        g \in {None, Some(PointGeom), Some(BogusGeom)}}

TemporalBodies == {[EmptyBody EXCEPT !.datetime = Some(t)] : t \in DatetimeTexts}

LimitBodies ==
    {[EmptyBody EXCEPT !.limit = l, !.collection = c] :
        l \in Limits, c \in {None, Some(<<"c">>)}}

ListBodies ==
    {[EmptyBody EXCEPT !.ids = i, !.items = t, !.role = r] :
        i \in NameLists, t \in NameLists, r \in {None, Some(<<<<"a">>>>)}}

MixedBodies ==
    {[EmptyBody EXCEPT !.bbox = b, !.intersects = g, !.datetime = d, !.limit = l] :
        b \in {None, Some(<<0, 0, 0, 0>>), Some(<<180, 0, 0, 0>>)},
        g \in {None, Some(PointGeom)},
        d \in {None, Some(<<"1", "/", "2">>), Some(<<"2", "/", "1">>), Some(<<"x">>)},
        l \in {[given |-> "absent", n |-> 0], [given |-> "value", n |-> 0]}}

PostBodies == SpatialBodies \cup TemporalBodies \cup LimitBodies \cup ListBodies
                  \cup MixedBodies

\* The text of a geometry as a query-string value.
GeometryText(g) ==
    <<"{type:" \o g.type, ",", "coordinates:[" \o ToString(g.coordinates[1]), ",",
      ToString(g.coordinates[2]) \o "]}">>

\* The query string that states the same filter as a JSON body: lists and the
\* bbox comma-separated, numbers in decimal, an absent or null field left out.
GetRepr(body) ==
    LET list(o) == IF IsNone(o) THEN None ELSE Some(Str(Join(Get(o), ",")))
        nums(v) == [i \in 1..Len(v) |-> <<ToString(v[i])>>]
    IN  [ids        |-> list(body.ids),
         items      |-> list(body.items),
         bbox       |-> IF IsNone(body.bbox) THEN None
                        ELSE Some(Str(Join(nums(Get(body.bbox)), ","))),
         intersects |-> IF IsNone(body.intersects) THEN None
                        ELSE Some(Str(GeometryText(Get(body.intersects)))),
         datetime   |-> IF IsNone(body.datetime) THEN None
                        ELSE Some(Str(Get(body.datetime))),
         role       |-> list(body.role),
         limit      |-> IF body.limit.given = "value" THEN Some(body.limit.n) ELSE None]

EmptyQuery == GetRepr(EmptyBody)

ListTexts == {None} \cup {Some(Str(t)) : t \in Texts({"a", "b", ","}, MaxTextLen)}
FewTexts == {None, Some(Str(<<>>)), Some(Str(<<"a">>)), Some(Str(<<"a", ",", "b">>))}

\* Queries written as text, empty values and stray commas included.
TextQueries ==
    {[EmptyQuery EXCEPT !.ids = i, !.items = t, !.role = r, !.bbox = b] :
        i \in ListTexts, t \in FewTexts, r \in FewTexts,
        b \in {None, Some(Str(<<>>)), Some(Str(<<"0", ",", "0", ",", "0", ",", "0">>))}}

GetQueries == {GetRepr(b) : b \in PostBodies} \cup TextQueries

\* ------------------------------------------------------------ endpoints

Init ==
    /\ \/ method = "GET" /\ request \in GetQueries
       \/ method = "POST" /\ request \in PostBodies
    /\ pc = "received"
    /\ filter = [status |-> "none", exc |-> "", errors |-> {}, model |-> None]
    /\ calls = <<>>
    /\ response = "none"

\* The GET request model as the endpoint's dependency: attrs validates
\* nothing, so construction always yields the model.
GetRequestData(q) ==
    [status |-> "ok", exc |-> "", errors |-> {}, model |-> Some(AssetSearchGetRequest(q))]

\* GET /asset/search: build the request model from the query and call the
\* client with its fields.
GetAssetSearch ==
    /\ pc = "received"
    /\ method = "GET"
    /\ LET r == GetRequestData(request)
       IN  /\ filter' = r
           /\ calls' = Append(calls, [op |-> "get_asset_search", args |-> Get(r.model)])
    /\ response' = "ok"
    /\ pc' = "done"
    /\ UNCHANGED <<method, request>>

\* POST /asset/search: validate the body into the request model and, when
\* that succeeds, call the client with it.
PostAssetSearch ==
    /\ pc = "received"
    /\ method = "POST"
    /\ LET r == AssetSearchPostRequest(request)
       IN  /\ filter' = r
           /\ IF r.status = "ok"
                THEN /\ calls' = Append(calls, [op |-> "post_asset_search",
                                                args |-> Get(r.model)])
                     /\ response' = "ok"
                ELSE /\ calls' = calls
                     /\ response' = IF r.exc = "ValidationError"
                                      THEN "validation error" ELSE "server error"
    /\ pc' = "done"
    /\ UNCHANGED <<method, request>>

Next == GetAssetSearch \/ PostAssetSearch

Spec == Init /\ [][Next]_vars

\* ------------------------------------------------- vocabulary of the claims

Handled(m) == pc = "done" /\ method = m

Accepted == filter.status = "ok"

\* The field `loc` failed validation with some message.
FieldRejected(loc) == \E e \in filter.errors : e.loc = loc

MutuallyExclusive ==
    [loc |-> "intersects", msg |-> "intersects and bbox parameters are mutually exclusive"]

\* The numbers a bbox text of a query states, component by component.
SampleNumbers == Lons \cup Lats \cup Elevs
NumberOf(c) == CHOOSE n \in SampleNumbers : <<ToString(n)>> = c
QueryBBox(q) ==
    IF IsNone(q.bbox) \/ ~Truthy(Get(q.bbox).str) THEN None
    ELSE LET parts == Split(Get(q.bbox).str, ",")
         IN  Some([i \in 1..Len(parts) |-> NumberOf(parts[i])])

\* The ring that is the polygon equivalent of the rectangle.
BBoxRing(xmin, ymin, xmax, ymax) ==
    << <<xmin, ymax>>, <<xmax, ymax>>, <<xmax, ymin>>, <<xmin, ymin>>, <<xmin, ymax>> >>

InWGS84(xmin, ymin, xmax, ymax) ==
    xmin >= -180 /\ ymin >= -90 /\ xmax <= 180 /\ ymax <= 90

BadBBox(v) ==
    \/ Len(v) \notin {4, 6}
    \/ Len(v) = 4 /\ (v[3] < v[1] \/ v[4] < v[2] \/ ~InWGS84(v[1], v[2], v[3], v[4]))
    \/ Len(v) = 6 /\ (v[4] < v[1] \/ v[5] < v[2] \/ v[6] < v[3]
                        \/ ~InWGS84(v[1], v[2], v[4], v[5]))

BadDatetime(t) ==
    LET c == Split(t, "/")
    IN  \/ \E i \in 1..Len(c) : c[i] # <<"..">> /\ ~IsTimestamp(c[i])
        \/ Len(c) = 2 /\ IsTimestamp(c[1]) /\ IsTimestamp(c[2])
                      /\ NumVal(c[1]) > NumVal(c[2])

BadLimit(n) == ~(0 < n /\ n <= 10000)

\* The request, a query or a body, has a field the claims call invalid.
HasInvalidField ==
    IF method = "GET"
      THEN \/ ~IsNone(QueryBBox(request)) /\ BadBBox(Get(QueryBBox(request)))
           \/ ~IsNone(QueryBBox(request)) /\ ~IsNone(request.intersects)
           \/ ~IsNone(request.datetime) /\ BadDatetime(Get(request.datetime).str)
           \/ ~IsNone(request.limit) /\ BadLimit(Get(request.limit))
      ELSE \/ ~IsNone(request.bbox) /\ BadBBox(Get(request.bbox))
           \/ ~IsNone(request.bbox) /\ ~IsNone(request.intersects)
           \/ ~IsNone(request.datetime) /\ BadDatetime(Get(request.datetime))
           \/ request.limit.given = "value" /\ BadLimit(request.limit.n)

\* ------------------------------------------------------------------ claims

\* C1: a POST body that supplies both a bbox of 4 or 6 numbers and an
\* intersects geometry always
\* fails with the mutual-exclusivity validation error, whatever the bbox is,
\* an invalid bbox included.
C1_BothSuppliedIsMutuallyExclusive ==
    (Handled("POST") /\ ~IsNone(request.bbox) /\ Len(Get(request.bbox)) \in {4, 6}
        /\ ~IsNone(request.intersects) /\ IsGeometry(Get(request.intersects)))
    => (filter.exc = "ValidationError" /\ MutuallyExclusive \in filter.errors)

\* C2: a search request, GET or POST, with any invalid field is rejected when
\* the filter is constructed and the backend client is never called for it.
C2_InvalidNeverReachesBackend ==
    (pc = "done" /\ HasInvalidField) => (~Accepted /\ calls = <<>>)

\* C3: a 4-element bbox that is ordered and within WGS84 bounds, without
\* intersects, validates, and spatial_filter is the polygon whose single ring
\* is the 5 closed points (xmin,ymax), (xmax,ymax), (xmax,ymin), (xmin,ymin),
\* (xmin,ymax).
C3_ValidBBoxGivesClosedRing ==
    (Handled("POST") /\ ~IsNone(request.bbox) /\ Len(Get(request.bbox)) = 4
        /\ ~BadBBox(Get(request.bbox)) /\ IsNone(request.intersects))
    => LET b == Get(request.bbox)
       IN  /\ ~FieldRejected("bbox") /\ ~FieldRejected("intersects")
           /\ (IsNone(request.datetime) /\ request.limit.given = "absent" => Accepted)
           /\ Accepted =>
                LET p == spatial_filter(Get(filter.model))
                    ring == Get(p).coordinates[1]
                IN  /\ ~IsNone(p)
                    /\ Get(p).type = "Polygon"
                    /\ Len(Get(p).coordinates) = 1
                    /\ Len(ring) = 5
                    /\ ring[1] = ring[5]
                    /\ ring = BBoxRing(b[1], b[2], b[3], b[4])

C3_Witness ==
    /\ Handled("POST") /\ Accepted
    /\ request.bbox = Some(<<-180, -90, 180, 90>>)
    /\ spatial_filter(Get(filter.model))
         = Some(Polygon(<< <<-180, 90>>, <<180, 90>>, <<180, -90>>, <<-180, -90>>,
                           <<-180, 90>> >>))

\* C4: every bbox that passes validation, of 4 or of 6 elements, has
\* xmin <= xmax, ymin <= ymax, xmin and xmax in [-180, 180], ymin and ymax
\* in [-90, 90] and, with 6 elements, zmin <= zmax.
C4_PassedBBoxIsOrderedAndInBounds ==
    (Handled("POST") /\ ~IsNone(request.bbox) /\ filter.exc # "KeyError"
        /\ ~FieldRejected("bbox"))
    => LET b == Get(request.bbox)
           six == Len(b) = 6
           xmin == b[1]
           ymin == b[2]
           xmax == IF six THEN b[4] ELSE b[3]
           ymax == IF six THEN b[5] ELSE b[4]
       IN  /\ Len(b) \in {4, 6}
           /\ xmin <= xmax /\ ymin <= ymax
           /\ -180 <= xmin /\ xmin <= 180 /\ -180 <= xmax /\ xmax <= 180
           /\ -90 <= ymin /\ ymin <= 90 /\ -90 <= ymax /\ ymax <= 90
           /\ six => b[3] <= b[6]

C4_Witness ==
    /\ Handled("POST") /\ Accepted
    /\ request.bbox = Some(<<-180, -90, 0, 180, 90, 1>>)

\* C5: for every accepted filter with a bbox, of 4 elements
\* (xmin,ymin,xmax,ymax) or of 6 (xmin,ymin,zmin,xmax,ymax,zmax),
\* spatial_filter is the closed ring built from the bbox's longitude and
\* latitude bounds; no elevation is a ring coordinate.
C5_SpatialFilterIsBBoxPolygon ==
    (Handled("POST") /\ Accepted /\ ~IsNone(request.bbox))
    => LET b == Get(request.bbox)
           six == Len(b) = 6
       IN  spatial_filter(Get(filter.model))
             = Some(Polygon(BBoxRing(b[1], b[2], IF six THEN b[4] ELSE b[3],
                                     IF six THEN b[5] ELSE b[4])))

C7_DatetimeRangeOrdered ==
    (Handled("POST") /\ ~IsNone(request.datetime))
    => LET c == Split(Get(request.datetime), "/")
           range == Len(c) = 2 /\ IsTimestamp(c[1]) /\ IsTimestamp(c[2])
           rejected == ~Accepted /\ (filter.exc # "KeyError" => FieldRejected("datetime"))
       IN  /\ range /\ NumVal(c[1]) > NumVal(c[2]) => rejected
           /\ range /\ NumVal(c[1]) <= NumVal(c[2])
                => /\ ~FieldRejected("datetime")
                   /\ request = [EmptyBody EXCEPT !.datetime = request.datetime]
                        => Accepted
           /\ (\E i \in 1..Len(c) : c[i] # <<"..">> /\ ~IsTimestamp(c[i])) => rejected

C7_Witness ==
    /\ Handled("POST")
    /\ request.datetime = Some(<<"2", "/", "1">>)
    /\ [loc |-> "datetime",
        msg |-> "Invalid datetime range, must match format (begin_date, end_date)"]
         \in filter.errors

\* C8: limit is 10 when not supplied; construction succeeds exactly when the
\* supplied limit is an integer with 0 < limit <= 10000; every constructed
\* filter has a limit that is positive and at most 10000.
C8_LimitDefaultAndRange ==
    pc = "done"
    => LET get == method = "GET"
           supplied == IF get THEN ~IsNone(request.limit)
                       ELSE request.limit.given # "absent"
           integer == IF get THEN ~IsNone(request.limit)
                      ELSE request.limit.given = "value"
           n == IF get THEN Get(request.limit) ELSE request.limit.n
           onlyLimit == IF get THEN request = [EmptyQuery EXCEPT !.limit = request.limit]
                        ELSE request = [EmptyBody EXCEPT !.limit = request.limit]
       IN  /\ Accepted /\ ~supplied => Get(filter.model).limit = Some(10)
           /\ Accepted => /\ ~IsNone(Get(filter.model).limit)
                          /\ ~BadLimit(Get(Get(filter.model).limit))
           /\ onlyLimit /\ supplied => (Accepted <=> (integer /\ ~BadLimit(n)))

\* C9: the GET request model turns the comma-separated text given for ids,
\* items, role and bbox into the list of its components, in order, and an
\* absent or empty text into None.
C9_QueryTextsBecomeLists ==
    Handled("GET")
    => \A f \in {"ids", "items", "role", "bbox"} :
         Get(filter.model)[f]
           = IF IsNone(request[f]) \/ ~Truthy(Get(request[f]).str) THEN None
             ELSE Some(List(Split(Get(request[f]).str, ",")))

\* What a request object offers as spatial_filter, start_date and end_date:
\* the POST model computes them, the GET class defines none of them.
PostDerived(m) ==
    [exc |-> "", spatial_filter |-> spatial_filter(m),
     dates |-> <<start_date(m), end_date(m)>>]
GetDerived(m) == [exc |-> "AttributeError"]

\* C10: the GET query and the POST body that state the same filter are both
\* accepted or both rejected and, when accepted, give the same spatial_filter
\* and the same (start_date, end_date).
C10_GetAndPostAgree ==
    Handled("POST")
    => LET g == GetRequestData(GetRepr(request))
       IN  /\ Accepted <=> g.status = "ok"
           /\ Accepted /\ g.status = "ok"
                => PostDerived(Get(filter.model)) = GetDerived(Get(g.model))

\* C11: on every datetime that validate_datetime accepts, whatever the number
\* of its components, start_date and end_date both evaluate without error
\* and, when neither is None, start_date <= end_date.
C11_ValidatorAndAccessorsAgree ==
    (Handled("POST") /\ Accepted /\ ~IsNone(request.datetime))
    => LET s == start_date(Get(filter.model))
           e == end_date(Get(filter.model))
       IN  /\ s # DateTimeError
           /\ e # DateTimeError
           /\ s.kind = "datetime" /\ e.kind = "datetime" => s.t <= e.t

====
